---- MODULE Spec2Model ----
(***************************************************************************)
(* Model of the streaming endpoint of src/main.py                          *)
(* (generate_learning_path_stream): request validation, the topic-keyed    *)
(* in-memory CACHE, the replay generator, and the live stream generator    *)
(* with its module loop, concurrent video searches and final cache write.  *)
(*                                                                         *)
(* Every action is one atomic block of the coroutine code: the code that   *)
(* runs on the event loop between two suspension points (await / yield).   *)
(***************************************************************************)
EXTENDS Naturals, Sequences, FiniteSets

(***************************************************************************)
(* Bounds of the model.                                                    *)
(***************************************************************************)
MaxReq == 3          \* requests that may arrive (Spec)
MaxModules == 2      \* longest module list the Outline Generator returns
MaxLessons == 2      \* longest lesson list the Outline Generator returns

Req == 1..MaxReq

(***************************************************************************)
(* Strings are sequences of one-character strings, so that len(), lower()  *)
(* and strip() are computed and not assumed.                               *)
(***************************************************************************)
LowerChar(c) ==
    CASE c = "H" -> "h"
      [] c = "O" -> "o"
      [] c = "L" -> "l"
      [] c = "E" -> "e"
      [] c = "S" -> "s"
      [] OTHER -> c

IsSpace(c) == c = " "

\* str.lower()
Lower(s) == [i \in 1..Len(s) |-> LowerChar(s[i])]

RECURSIVE LStrip(_)
LStrip(s) == IF s # <<>> /\ IsSpace(Head(s)) THEN LStrip(Tail(s)) ELSE s

RECURSIVE RStrip(_)
RStrip(s) ==
    IF s # <<>> /\ IsSpace(s[Len(s)]) THEN RStrip(SubSeq(s, 1, Len(s) - 1)) ELSE s

\* str.strip()
Strip(s) == RStrip(LStrip(s))

\* the topic used as the key as it was sent
TopicKeyRaw(t) == t

\* a key that is lower-cased but not stripped
TopicKeyNoStrip(t) == Lower(t)

\* topic_key = request.topic.lower().strip()
TopicKey(t) == Strip(Lower(t))

\* Field(..., min_length=5)
MinLength == 5

\* a topic field declared without min_length
ValidTopicAny(t) == TRUE

\* pydantic's validation of LearningRequest.topic
ValidTopic(t) == Len(t) >= MinLength

(***************************************************************************)
(* Request bodies the clients send.                                        *)
(***************************************************************************)
Topics ==
    { <<"H", "o", "l", "e", "s">>,
      <<" ", "h", "O", "L", "E", "S", " ">>,
      <<"s", "t", "a", "r", "s">>,
      <<" ", "H", "o", "l">> }

(***************************************************************************)
(* Responses of the two external collaborators.  The code accepts any      *)
(* list the Outline Generator validates and any result yt_dlp produces;    *)
(* the catalogues below are the responses the model explores.              *)
(***************************************************************************)
None == "<None>"

\* call_gemini_with_schema(module_prompt, AIModuleListSchema).modules
AllModuleLists ==
    { <<>>, <<"M1">>, <<"M1", "M2">>, <<"M1", "M2", "M3">> }

ModuleLists == { m \in AllModuleLists : Len(m) <= MaxModules }

\* call_gemini_with_schema(lesson_prompt, AILessonListSchema).lessons
AllLessonLists ==
    { <<>>, <<"La">>, <<"La", "Lb">>, <<"La", "La">>, <<"La", "Lb", "La">> }

LessonLists == { l \in AllLessonLists : Len(l) <= MaxLessons }

\* entries of a flat yt_dlp search result
EntryA == [id |-> "a", url |-> "ua", title |-> "ta", thumbnail |-> "pa"]
EntryB == [id |-> "b", url |-> "ub", title |-> "tb"]
EntryNoUrl == [id |-> "c", title |-> "tc"]
EntryEmptyUrl == [id |-> "d", url |-> "", title |-> "td"]
EntryNoTitle == [id |-> "e", url |-> "ue"]
EntryFalsy == [f \in {} |-> ""]

\* what ydl.extract_info does for one search: it raises, or returns a result
YdlRaises == [raises |-> TRUE, entries |-> <<>>]

YdlMixed ==
    [raises |-> FALSE,
     entries |-> <<EntryNoUrl, EntryA, EntryFalsy, EntryEmptyUrl, EntryB>>]

YdlNoTitle == [raises |-> FALSE, entries |-> <<EntryA, EntryNoTitle>>]

YdlOutcomes == { YdlRaises, YdlMixed, YdlNoTitle }

(***************************************************************************)
(* Pure functions of the pipeline.                                         *)
(***************************************************************************)
\* truthiness of a dict
Truthy(e) == DOMAIN e # {}

\* search_youtube_sync: the entries that are truthy, or [] when yt_dlp raises
search_youtube_sync(o) ==
    IF o.raises THEN <<>> ELSE SelectSeq(o.entries, Truthy)

\* video.get(f)
Get(v, f) == IF f \in DOMAIN v THEN v[f] ELSE None

\* a filter on the presence of the key: if 'url' in video
HasUrlKey(v) == "url" \in DOMAIN v

\* the filter of the comprehension: if video.get('url')
HasUrl(v) == Get(v, "url") # None /\ Get(v, "url") # ""

\* VideoInfo(**video) validates: title and url are required strings
VideoInfoValid(v) == Get(v, "title") # None /\ Get(v, "url") # None

\* VideoInfo(**video).model_dump(): the declared fields only
VideoInfo(v) ==
    [title |-> v.title, url |-> v.url, thumbnail |-> Get(v, "thumbnail")]

\* [VideoInfo(**video) for video in raw if video.get('url')]
Videos(raw) ==
    LET kept == SelectSeq(raw, HasUrl)
    IN  [j \in 1..Len(kept) |-> VideoInfo(kept[j])]

\* the comprehension raises when a kept record fails validation
VideosRaise(raw) ==
    \E j \in 1..Len(raw) : HasUrl(raw[j]) /\ ~VideoInfoValid(raw[j])

\* Lesson(lesson_title=..., videos=videos).model_dump()
Lesson(title, videos) == [lesson_title |-> title, videos |-> videos]

\* Module(module_title=..., lessons=final_lessons).model_dump()
Module(title, lessons) == [module_title |-> title, lessons |-> lessons]

\* results taken in the order the tasks completed (asyncio.as_completed)
GatherAsCompleted(n, done) == [i \in 1..n |-> done[i].result]

\* asyncio.gather: the results in the order of the awaitables passed in,
\* whatever the order the tasks completed in (done: <<index, result>> pairs
\* in completion order)
Gather(n, done) ==
    [i \in 1..n |-> done[CHOOSE j \in 1..Len(done) : done[j].index = i].result]

\* an assembly that leaves out the lessons that got no video
AssembleModuleWithVideos(title, lessons, results) ==
    Module(title,
           SelectSeq([i \in 1..Len(lessons) |-> Lesson(lessons[i], Videos(results[i]))],
                     LAMBDA l : l.videos # <<>>))

\* an assembly keyed by lesson title: a title seen before is left out
AssembleModuleDistinct(title, lessons, results) ==
    LET idx == SelectSeq([i \in 1..Len(lessons) |-> i],
                         LAMBDA i : \A j \in 1..(i - 1) : lessons[j] # lessons[i])
    IN  Module(title,
               [n \in 1..Len(idx) |-> Lesson(lessons[idx[n]], Videos(results[idx[n]]))])

\* lines 143-148: the Module built from the lesson list and the joined results
AssembleModule(title, lessons, results) ==
    Module(title,
           [i \in 1..Len(lessons) |-> Lesson(lessons[i], Videos(results[i]))])

\* lines 143-146 raise when some lesson's comprehension raises
AssembleRaises(lessons, results) ==
    \E i \in 1..Len(lessons) : VideosRaise(results[i])

\* json.dumps(x) + "\n": one NDJSON line per record
JsonLine(x) == <<x, "\n">>

\* {"error": f"Failed to generate modules: {e}"}
ErrorRecord == [error |-> "Failed to generate modules"]

(***************************************************************************)
(* The process-wide cache: a dict from topic_key to a list of chunks.      *)
(***************************************************************************)
EmptyCache == [key \in {} |-> <<>>]

\* a test of the entry's truth value: CACHE.get(topic_key)
CacheHitTruthy(c, key) == key \in DOMAIN c /\ c[key] # <<>>

\* topic_key in CACHE
CacheHit(c, key) == key \in DOMAIN c

\* CACHE rebound to a dict that holds the new entry alone
CachePutAlone(c, key, chunks) == [x \in {key} |-> chunks]

\* a write that keeps an entry already there: CACHE.setdefault(topic_key, ...)
CachePutIfAbsent(c, key, chunks) ==
    [x \in DOMAIN c \cup {key} |-> IF x \in DOMAIN c THEN c[x] ELSE chunks]

\* CACHE[topic_key] = processed_chunks
CachePut(c, key, chunks) ==
    [x \in DOMAIN c \cup {key} |-> IF x = key THEN chunks ELSE c[x]]

\* processed_chunks.append(chunk_to_send)
Processed(chunks, chunk) == Append(chunks, chunk)

(***************************************************************************)
(* State.  One record of locals per request; cache is the global CACHE.    *)
(***************************************************************************)
VARIABLES
    cache,       \* CACHE
    topic,       \* request.topic of each request
    pc,          \* where each request's handler / generator stands
    mods,        \* module_list_response.modules
    k,           \* index of the module the loop is at
    lessons,     \* lesson_list_response.lessons of the current module
    pending,     \* lesson indexes whose search thread is still running
    done,        \* finished searches of the current module, in completion order
    chunks,      \* processed_chunks
    snap,        \* the list the replay loop iterates over
    out,         \* the NDJSON lines delivered to the consumer so far
    genCalls,    \* history: Outline Generator calls issued by the request
    vidCalls,    \* history: Video Resolver calls issued by the request
    lookups,     \* history: cache membership tests made by the request
    writes,      \* history: cache writes made by the request
    keyPresent,  \* history: topic_key was in CACHE when the request tested it
    finished,    \* history: the runs for the same lower-cased, trimmed topic
                 \* that had ended when the request arrived
    skipped,     \* history: module indexes whose lesson generation failed
    writer,      \* history: per cache key, the request that wrote the entry
    src          \* history: the request whose entry a replay iterates over

vars ==
    << cache, topic, pc, mods, k, lessons, pending, done, chunks, snap, out,
       genCalls, vidCalls, lookups, writes, keyPresent, finished, skipped,
       writer, src >>

\* the locals of the module loop
loopVars == << mods, k, lessons, done, chunks >>

\* the history of the cache and of the external calls
callVars == << genCalls, vidCalls, lookups, writes >>

NoTopic == <<>>

Init ==
    /\ cache = EmptyCache
    /\ topic = [r \in Req |-> NoTopic]
    /\ pc = [r \in Req |-> "Idle"]
    /\ mods = [r \in Req |-> <<>>]
    /\ k = [r \in Req |-> 0]
    /\ lessons = [r \in Req |-> <<>>]
    /\ pending = [r \in Req |-> {}]
    /\ done = [r \in Req |-> <<>>]
    /\ chunks = [r \in Req |-> <<>>]
    /\ snap = [r \in Req |-> <<>>]
    /\ out = [r \in Req |-> <<>>]
    /\ genCalls = [r \in Req |-> 0]
    /\ vidCalls = [r \in Req |-> 0]
    /\ lookups = [r \in Req |-> 0]
    /\ writes = [r \in Req |-> 0]
    /\ keyPresent = [r \in Req |-> FALSE]
    /\ finished = [r \in Req |-> {}]
    /\ skipped = [r \in Req |-> {}]
    /\ writer = EmptyCache
    /\ src = [r \in Req |-> 0]

\* the generator of a live run has ended: normally, by the early return, or
\* by an exception
RunEnded == { "Complete", "Aborted", "Crashed" }

(***************************************************************************)
(* The handler, lines 102-114 and 160: validation of the body, the cache   *)
(* test, and the choice of the generator the response will iterate.  On a  *)
(* miss the first block of stream_generator (lines 117-123, up to the      *)
(* await of the module-title call) is taken with it: it reads and writes   *)
(* only its own locals.  Requests are numbered in the order they arrive.   *)
(***************************************************************************)
Arrive(r, t) ==
    /\ pc[r] = "Idle"
    /\ r > 1 => pc[r - 1] # "Idle"
    /\ topic' = [topic EXCEPT ![r] = t]
    /\ IF ~ValidTopic(t)
       THEN /\ pc' = [pc EXCEPT ![r] = "Rejected"]
            /\ UNCHANGED << lookups, keyPresent, finished, genCalls >>
       ELSE /\ lookups' = [lookups EXCEPT ![r] = @ + 1]
            /\ keyPresent' = [keyPresent EXCEPT ![r] = TopicKey(t) \in DOMAIN cache]
            /\ finished' = [finished EXCEPT ![r] =
                   { q \in Req : /\ pc[q] \in RunEnded
                                 /\ Strip(Lower(topic[q])) = Strip(Lower(t)) }]
            /\ IF CacheHit(cache, TopicKey(t))
               THEN /\ pc' = [pc EXCEPT ![r] = "ReplayWait"]
                    /\ UNCHANGED genCalls
               ELSE /\ pc' = [pc EXCEPT ![r] = "FetchModules"]
                    /\ genCalls' = [genCalls EXCEPT ![r] = @ + 1]
    /\ UNCHANGED << cache, loopVars, pending, snap, out, vidCalls, writes,
                    skipped, writer, src >>

(***************************************************************************)
(* cached_stream_generator, lines 108-111.  The first step evaluates       *)
(* CACHE[topic_key] once and yields the first chunk; every later step      *)
(* resumes after the sleep and yields the next chunk or ends.              *)
(***************************************************************************)
ReplayBegin(r) ==
    /\ pc[r] = "ReplayWait"
    /\ LET list == cache[TopicKey(topic[r])]
       IN  /\ snap' = [snap EXCEPT ![r] = list]
           /\ src' = [src EXCEPT ![r] = writer[TopicKey(topic[r])]]
           /\ IF list = <<>>
              THEN /\ pc' = [pc EXCEPT ![r] = "ReplayDone"]
                   /\ UNCHANGED out
              ELSE /\ pc' = [pc EXCEPT ![r] = "Replay"]
                   /\ out' = [out EXCEPT ![r] = Append(@, JsonLine(list[1]))]
    /\ UNCHANGED << cache, topic, loopVars, pending, callVars, keyPresent,
                    finished, skipped, writer >>

\* a loop that indexes CACHE[topic_key] anew for every chunk
ReplayNextRereads(r) ==
    /\ pc[r] = "Replay"
    /\ IF Len(out[r]) < Len(cache[TopicKey(topic[r])])
       THEN /\ out' = [out EXCEPT ![r] =
                    Append(@, JsonLine(cache[TopicKey(topic[r])][Len(out[r]) + 1]))]
            /\ UNCHANGED pc
       ELSE /\ pc' = [pc EXCEPT ![r] = "ReplayDone"]
            /\ UNCHANGED out
    /\ UNCHANGED << cache, topic, loopVars, pending, snap, callVars, keyPresent,
                    finished, skipped, writer, src >>

ReplayNext(r) ==
    /\ pc[r] = "Replay"
    /\ IF Len(out[r]) < Len(snap[r])
       THEN /\ out' = [out EXCEPT ![r] = Append(@, JsonLine(snap[r][Len(out[r]) + 1]))]
            /\ UNCHANGED pc
       ELSE /\ pc' = [pc EXCEPT ![r] = "ReplayDone"]
            /\ UNCHANGED out
    /\ UNCHANGED << cache, topic, loopVars, pending, snap, callVars, keyPresent,
                    finished, skipped, writer, src >>

(***************************************************************************)
(* stream_generator, lines 116-158.                                        *)
(***************************************************************************)
\* an except branch that stores the empty result before it returns
ModulesFailCaches(r) ==
    /\ pc[r] = "FetchModules"
    /\ out' = [out EXCEPT ![r] = Append(@, JsonLine(ErrorRecord))]
    /\ pc' = [pc EXCEPT ![r] = "Aborted"]
    /\ cache' = [x \in DOMAIN cache \cup {TopicKey(topic[r])} |->
                    IF x = TopicKey(topic[r]) THEN chunks[r] ELSE cache[x]]
    /\ writer' = [x \in DOMAIN writer \cup {TopicKey(topic[r])} |->
                    IF x = TopicKey(topic[r]) THEN r ELSE writer[x]]
    /\ writes' = [writes EXCEPT ![r] = @ + 1]
    /\ UNCHANGED << topic, loopVars, pending, snap, genCalls, vidCalls, lookups,
                    keyPresent, finished, skipped, src >>

\* lines 124-127: the call raised; one error line, then return
ModulesFail(r) ==
    /\ pc[r] = "FetchModules"
    /\ out' = [out EXCEPT ![r] = Append(@, JsonLine(ErrorRecord))]
    /\ pc' = [pc EXCEPT ![r] = "Aborted"]
    /\ UNCHANGED << cache, topic, loopVars, pending, snap, callVars, keyPresent,
                    finished, skipped, writer, src >>

\* a loop end that stores processed_chunks only when it is not empty
LoopHeadSkipsEmpty(r, m, idx) ==
    /\ k' = [k EXCEPT ![r] = idx]
    /\ IF idx <= Len(m)
       THEN /\ pc' = [pc EXCEPT ![r] = "FetchLessons"]
            /\ genCalls' = [genCalls EXCEPT ![r] = @ + 1]
            /\ UNCHANGED << cache, writes, writer >>
       ELSE /\ IF chunks[r] # <<>>
               THEN /\ cache' = [x \in DOMAIN cache \cup {TopicKey(topic[r])} |->
                                    IF x = TopicKey(topic[r]) THEN chunks[r] ELSE cache[x]]
                    /\ writer' = [x \in DOMAIN writer \cup {TopicKey(topic[r])} |->
                                     IF x = TopicKey(topic[r]) THEN r ELSE writer[x]]
                    /\ writes' = [writes EXCEPT ![r] = @ + 1]
               ELSE UNCHANGED << cache, writes, writer >>
            /\ pc' = [pc EXCEPT ![r] = "Complete"]
            /\ UNCHANGED genCalls

\* The head of the for loop at line 129 with the loop over list m at index
\* idx: either the next iteration runs up to its await at line 134, or the
\* loop is over and lines 157-158 store processed_chunks in CACHE.
LoopHead(r, m, idx) ==
    /\ k' = [k EXCEPT ![r] = idx]
    /\ IF idx <= Len(m)
       THEN /\ pc' = [pc EXCEPT ![r] = "FetchLessons"]
            /\ genCalls' = [genCalls EXCEPT ![r] = @ + 1]
            /\ UNCHANGED << cache, writes, writer >>
       ELSE /\ cache' = CachePut(cache, TopicKey(topic[r]), chunks[r])
            /\ writer' = CachePut(writer, TopicKey(topic[r]), r)
            /\ writes' = [writes EXCEPT ![r] = @ + 1]
            /\ pc' = [pc EXCEPT ![r] = "Complete"]
            /\ UNCHANGED genCalls

\* line 123 returned the list m; the loop starts
ModulesOk(r, m) ==
    /\ pc[r] = "FetchModules"
    /\ mods' = [mods EXCEPT ![r] = m]
    /\ LoopHead(r, m, 1)
    /\ UNCHANGED << topic, lessons, pending, done, chunks, snap, out, vidCalls,
                    lookups, keyPresent, finished, skipped, src >>

\* a failed lesson call that yields the module with no lessons
LessonsFailEmitsEmpty(r) ==
    /\ pc[r] = "FetchLessons"
    /\ skipped' = [skipped EXCEPT ![r] = @ \cup {k[r]}]
    /\ chunks' = [chunks EXCEPT ![r] = Append(@, Module(mods[r][k[r]], <<>>))]
    /\ out' = [out EXCEPT ![r] = Append(@, JsonLine(Module(mods[r][k[r]], <<>>)))]
    /\ pc' = [pc EXCEPT ![r] = "Emitted"]
    /\ UNCHANGED << cache, topic, mods, k, lessons, pending, done, snap,
                    callVars, keyPresent, finished, writer, src >>

\* an except branch that reports the failed module before it continues
LessonsFailEmitsError(r) ==
    /\ pc[r] = "FetchLessons"
    /\ skipped' = [skipped EXCEPT ![r] = @ \cup {k[r]}]
    /\ out' = [out EXCEPT ![r] = Append(@, JsonLine(ErrorRecord))]
    /\ LoopHead(r, mods[r], k[r] + 1)
    /\ UNCHANGED << topic, mods, lessons, pending, done, chunks, snap,
                    vidCalls, lookups, keyPresent, finished, src >>

\* lines 135-136: the lesson call raised; continue with the next module
LessonsFail(r) ==
    /\ pc[r] = "FetchLessons"
    /\ skipped' = [skipped EXCEPT ![r] = @ \cup {k[r]}]
    /\ LoopHead(r, mods[r], k[r] + 1)
    /\ UNCHANGED << topic, mods, lessons, pending, done, chunks, snap, out,
                    vidCalls, lookups, keyPresent, finished, src >>

\* searches started as background tasks that the loop does not wait for
LessonsOkNoAwait(r, l) ==
    /\ pc[r] = "FetchLessons"
    /\ lessons' = [lessons EXCEPT ![r] = l]
    /\ pending' = [pending EXCEPT ![r] = 1..Len(l)]
    /\ done' = [done EXCEPT ![r] = <<>>]
    /\ vidCalls' = [vidCalls EXCEPT ![r] = @ + Len(l)]
    /\ pc' = [pc EXCEPT ![r] = "Emitted"]
    /\ chunks' = [chunks EXCEPT ![r] = Append(@, Module(mods[r][k[r]], <<>>))]
    /\ out' = [out EXCEPT ![r] = Append(@, JsonLine(Module(mods[r][k[r]], <<>>)))]
    /\ UNCHANGED << cache, topic, mods, k, snap, genCalls, lookups,
                    writes, keyPresent, finished, skipped, writer, src >>

\* lines 134, 138-140: the lesson call returned the list l; one search per
\* lesson is started and the generator awaits the gather
LessonsOk(r, l) ==
    /\ pc[r] = "FetchLessons"
    /\ lessons' = [lessons EXCEPT ![r] = l]
    /\ pending' = [pending EXCEPT ![r] = 1..Len(l)]
    /\ done' = [done EXCEPT ![r] = <<>>]
    /\ vidCalls' = [vidCalls EXCEPT ![r] = @ + Len(l)]
    /\ pc' = [pc EXCEPT ![r] = "FanOut"]
    /\ UNCHANGED << cache, topic, mods, k, chunks, snap, out, genCalls, lookups,
                    writes, keyPresent, finished, skipped, writer, src >>

\* lines 60-89: the search thread of lesson i ends with yt_dlp outcome o.
\* The thread of a cancelled generator still ends; its result goes nowhere.
SearchReturn(r, i, o) ==
    /\ i \in pending[r]
    /\ pending' = [pending EXCEPT ![r] = @ \ {i}]
    /\ IF pc[r] = "FanOut"
       THEN done' = [done EXCEPT ![r] =
                Append(@, [index |-> i, result |-> search_youtube_sync(o),
                           raised |-> o.raises])]
       ELSE UNCHANGED done
    /\ UNCHANGED << cache, topic, pc, mods, k, lessons, chunks, snap, out,
                    callVars, keyPresent, finished, skipped, writer, src >>

\* a loop body that stores processed_chunks in CACHE after every append
JoinCommits(r) ==
    /\ pc[r] = "FanOut"
    /\ pending[r] = {}
    /\ LET video_search_results == Gather(Len(lessons[r]), done[r])
           chunk_to_send ==
               AssembleModule(mods[r][k[r]], lessons[r], video_search_results)
       IN  /\ chunks' = [chunks EXCEPT ![r] = Append(@, chunk_to_send)]
           /\ out' = [out EXCEPT ![r] = Append(@, JsonLine(chunk_to_send))]
           /\ cache' = [x \in DOMAIN cache \cup {TopicKey(topic[r])} |->
                           IF x = TopicKey(topic[r]) THEN Append(chunks[r], chunk_to_send)
                           ELSE cache[x]]
    /\ writer' = [x \in DOMAIN writer \cup {TopicKey(topic[r])} |->
                    IF x = TopicKey(topic[r]) THEN r ELSE writer[x]]
    /\ writes' = [writes EXCEPT ![r] = @ + 1]
    /\ pc' = [pc EXCEPT ![r] = "Emitted"]
    /\ UNCHANGED << topic, mods, k, lessons, pending, done, snap, genCalls,
                    vidCalls, lookups, keyPresent, finished, skipped, src >>

\* lines 140-153: every search is done; the gather returns, the module is
\* assembled, appended to processed_chunks and yielded.  A VideoInfo that
\* fails validation raises out of the generator.
Join(r) ==
    /\ pc[r] = "FanOut"
    /\ pending[r] = {}
    /\ LET video_search_results == Gather(Len(lessons[r]), done[r])
           chunk_to_send ==
               AssembleModule(mods[r][k[r]], lessons[r], video_search_results)
       IN  IF AssembleRaises(lessons[r], video_search_results)
           THEN /\ pc' = [pc EXCEPT ![r] = "Crashed"]
                /\ UNCHANGED << chunks, out >>
           ELSE /\ chunks' = [chunks EXCEPT ![r] = Processed(@, chunk_to_send)]
                /\ out' = [out EXCEPT ![r] = Append(@, JsonLine(chunk_to_send))]
                /\ pc' = [pc EXCEPT ![r] = "Emitted"]
    /\ UNCHANGED << cache, topic, mods, k, lessons, pending, done, snap,
                    callVars, keyPresent, finished, skipped, writer, src >>

\* lines 153-154 resume after the yield and the sleep; back to the loop head
Resume(r) ==
    /\ pc[r] = "Emitted"
    /\ lessons' = [lessons EXCEPT ![r] = <<>>]
    /\ done' = [done EXCEPT ![r] = <<>>]
    /\ LoopHead(r, mods[r], k[r] + 1)
    /\ UNCHANGED << topic, mods, pending, chunks, snap, out, vidCalls, lookups,
                    keyPresent, finished, skipped, src >>

(***************************************************************************)
(* line 112 / 160: the StreamingResponse stops iterating its generator     *)
(* when the client goes away; the generator is cancelled at the point      *)
(* where it is suspended and runs no further line.                         *)
(***************************************************************************)
Suspended ==
    { "ReplayWait", "Replay", "FetchModules", "FetchLessons", "FanOut",
      "Emitted" }

Disconnect(r) ==
    /\ pc[r] \in Suspended
    /\ pc' = [pc EXCEPT ![r] = "Cancelled"]
    /\ UNCHANGED << cache, topic, loopVars, pending, snap, out, callVars,
                    keyPresent, finished, skipped, writer, src >>

(***************************************************************************)
(* Spec: MaxReq concurrent requests; the collaborators answer with the     *)
(* short responses.  SpecPipeline: one request against the empty cache;    *)
(* the collaborators answer with every response of the catalogues.         *)
(***************************************************************************)
ShortModuleLists == { m \in ModuleLists : Len(m) = 1 }

ShortLessonLists == { l \in LessonLists : Len(l) = 1 }

ShortYdlOutcomes == { YdlMixed }

Next ==
    \E r \in Req :
        \/ \E t \in Topics : Arrive(r, t)
        \/ ReplayBegin(r)
        \/ ReplayNext(r)
        \/ ModulesFail(r)
        \/ \E m \in ShortModuleLists : ModulesOk(r, m)
        \/ LessonsFail(r)
        \/ \E l \in ShortLessonLists : LessonsOk(r, l)
        \/ \E i \in pending[r], o \in ShortYdlOutcomes : SearchReturn(r, i, o)
        \/ Join(r)
        \/ Resume(r)

Spec == Init /\ [][Next]_vars

NextPipeline ==
    \/ \E t \in Topics : Arrive(1, t)
    \/ ModulesFail(1)
    \/ \E m \in ModuleLists : ModulesOk(1, m)
    \/ LessonsFail(1)
    \/ \E l \in LessonLists : LessonsOk(1, l)
    \/ \E i \in pending[1], o \in YdlOutcomes : SearchReturn(1, i, o)
    \/ Join(1)
    \/ Resume(1)
    \/ Disconnect(1)

SpecPipeline == Init /\ [][NextPipeline]_vars

(***************************************************************************)
(* SpecRace: three requests for one cache key, written in two ways; every  *)
(* module list has two modules, so that a run is in flight with a part of  *)
(* its chunks emitted and a replay has a chunk still to come while other   *)
(* runs for the key finish.                                                *)
(***************************************************************************)
RaceReq == 1..3

RaceTopics == { t \in Topics : ValidTopic(t) /\ TopicKey(t) = TopicKey(<<"H", "o", "l", "e", "s">>) }

RaceModuleLists == { m \in AllModuleLists : Len(m) = 2 }

NextRace ==
    \E r \in RaceReq :
        \/ \E t \in RaceTopics : Arrive(r, t)
        \/ ReplayBegin(r)
        \/ ReplayNext(r)
        \/ \E m \in RaceModuleLists : ModulesOk(r, m)
        \/ LessonsFail(r)
        \/ \E l \in ShortLessonLists : LessonsOk(r, l)
        \/ \E i \in pending[r], o \in ShortYdlOutcomes : SearchReturn(r, i, o)
        \/ Join(r)
        \/ Resume(r)

SpecRace == Init /\ [][NextRace]_vars

(***************************************************************************)
(* SpecLive: two requests for one key, no disconnect.  The event loop      *)
(* resumes a generator whose awaited call has returned, the consumer reads *)
(* every line it is offered, and every collaborator call returns or        *)
(* raises: a request that can take a step eventually takes one.            *)
(***************************************************************************)
LiveReq == 1..2

StepLive(r) ==
    \/ ReplayBegin(r)
    \/ ReplayNext(r)
    \/ ModulesFail(r)
    \/ \E m \in ShortModuleLists : ModulesOk(r, m)
    \/ LessonsFail(r)
    \/ \E l \in ShortLessonLists : LessonsOk(r, l)
    \/ \E i \in pending[r], o \in YdlOutcomes : SearchReturn(r, i, o)
    \/ Join(r)
    \/ Resume(r)

NextLive ==
    \E r \in LiveReq :
        \/ \E t \in RaceTopics : Arrive(r, t)
        \/ StepLive(r)

SpecLive ==
    Init /\ [][NextLive]_vars /\ \A r \in LiveReq : WF_vars(StepLive(r))

(***************************************************************************)
(* Properties.                                                             *)
(***************************************************************************)
\* the normalized form of a topic: lower-cased, then trimmed
Normalized(t) == Strip(Lower(t))

\* r has been accepted and a, a live run for the same normalized topic, had
\* ended in st when r arrived
ArrivedAfter(r, a, st) ==
    /\ a \in finished[r]
    /\ pc[a] = st
    /\ Normalized(topic[a]) = Normalized(topic[r])

(* C1, as stated: once a run for topic T has completed, every later request
   whose topic normalizes to the key of T replays exactly the sequence of
   chunks that this run streamed.  Violated: a second run for the same key
   that was in flight when the first completed overwrites the entry. *)
ReplayIsOfTheCompletedRun ==
    \A r \in Req, a \in Req :
        ArrivedAfter(r, a, "Complete") /\ pc[r] = "ReplayDone" => out[r] = out[a]

(* C1, amended: once a run for topic T has completed, every later request
   whose topic normalizes to the key of T is a cache hit and calls no
   collaborator, and its finished replay is line for line the stream of one
   completed run for that key: the run whose entry CACHE held when the replay
   started, which is the run for T or a run for the same key that was already
   in flight when the run for T completed. *)
ReplayIsOfTheStoredRun ==
    \A r \in Req, a \in Req :
        ArrivedAfter(r, a, "Complete") =>
            /\ keyPresent[r]
            /\ pc[r] \in { "ReplayWait", "Replay", "ReplayDone" }
            /\ genCalls[r] = 0 /\ vidCalls[r] = 0
            /\ pc[r] = "ReplayDone" =>
                   /\ src[r] \in Req
                   /\ pc[src[r]] = "Complete"
                   /\ Normalized(topic[src[r]]) = Normalized(topic[r])
                   /\ out[r] = out[src[r]]
                   /\ src[r] = a \/ a \notin finished[src[r]]

\* C1 witness: a finished, non-empty replay for a differently written topic
ReplayedOtherSpelling ==
    \E r \in Req, a \in Req :
        /\ ArrivedAfter(r, a, "Complete")
        /\ topic[r] # topic[a]
        /\ pc[r] = "ReplayDone"
        /\ src[r] = a
        /\ out[r] # <<>>

(* C2: the cache is tested once per accepted request, in the handler and
   before the request issues any collaborator call; a request whose key was
   in the cache issues no Outline Generator call and no Video Resolver call
   and never writes the cache. *)
CacheTestedOnceAndHitBypasses ==
    \A r \in Req :
        /\ lookups[r] <= 1
        /\ pc[r] \notin { "Idle", "Rejected" } => lookups[r] = 1
        /\ genCalls[r] + vidCalls[r] + writes[r] > 0 =>
               lookups[r] = 1 /\ ~keyPresent[r]
        /\ keyPresent[r] =>
               /\ genCalls[r] = 0 /\ vidCalls[r] = 0 /\ writes[r] = 0
               /\ chunks[r] = <<>> /\ mods[r] = <<>>

\* C2 witness: a hit was served to its end
HitServed ==
    \E r \in Req : keyPresent[r] /\ pc[r] = "ReplayDone" /\ out[r] # <<>>

(* C3: a run whose module-title call failed has emitted exactly one error
   record and no module chunk, is over, started no search and wrote no cache
   entry; a request for the same normalized topic that arrives afterwards
   finds the key in the cache only if some other run for it completed. *)
ModuleListFailureAborts ==
    \A r \in Req :
        pc[r] = "Aborted" =>
            /\ out[r] = << JsonLine(ErrorRecord) >>
            /\ chunks[r] = <<>>
            /\ writes[r] = 0 /\ vidCalls[r] = 0 /\ pending[r] = {}
            /\ \A key \in DOMAIN writer : writer[key] # r
            /\ \A q \in Req :
                   ArrivedAfter(q, r, "Aborted") /\ keyPresent[q] =>
                       \E w \in Req \ {r} :
                           /\ pc[w] = "Complete"
                           /\ Normalized(topic[w]) = Normalized(topic[q])

\* C3 witness: the same topic is asked again after the failure and misses
MissAgainAfterFailure ==
    \E r \in Req, q \in Req :
        /\ ArrivedAfter(q, r, "Aborted")
        /\ topic[q] = topic[r]
        /\ ~keyPresent[q]
        /\ genCalls[q] > 0

\* the chunk a run emitted last
LastChunk(r) == chunks[r][Len(chunks[r])]

\* the titles of the modules 1..n of run r whose lesson call did not fail
RECURSIVE SurvivingTitles(_, _)
SurvivingTitles(r, n) ==
    IF n = 0 THEN <<>>
    ELSE IF n \in skipped[r] THEN SurvivingTitles(r, n - 1)
         ELSE Append(SurvivingTitles(r, n - 1), mods[r][n])

\* the number of modules the loop of run r is through with
ModulesPassed(r) == IF pc[r] = "Emitted" THEN k[r] ELSE k[r] - 1

\* this step is the failure of the lesson call for the module k[r] of run r
LessonCallFails(r) == k[r] \notin skipped[r] /\ k[r] \in skipped'[r]

(* C4: a failed lesson call for module k emits nothing (no chunk, no error
   record), starts no search, and moves the loop on to module k+1, or to the
   cache write when k was the last module; at every point of a run the chunks
   emitted are, in order, the modules passed so far whose lesson call did
   not fail, and a completed run has passed every module and stored exactly
   what it emitted. *)
LessonFailureSkipsModule ==
    /\ [](\A r \in Req :
            pc[r] \in { "FetchLessons", "FanOut", "Emitted", "Complete", "Crashed" } =>
                /\ [i \in 1..Len(chunks[r]) |-> chunks[r][i].module_title]
                       = SurvivingTitles(r, ModulesPassed(r))
                /\ out[r] = [i \in 1..Len(chunks[r]) |-> JsonLine(chunks[r][i])]
                /\ pc[r] = "Complete" =>
                       /\ ModulesPassed(r) = Len(mods[r])
                       /\ writes[r] = 1
                       /\ writer[TopicKey(topic[r])] = r =>
                              cache[TopicKey(topic[r])] = chunks[r])
    /\ [][\A r \in Req :
            LessonCallFails(r) =>
                /\ out'[r] = out[r]
                /\ chunks'[r] = chunks[r]
                /\ vidCalls'[r] = vidCalls[r]
                /\ pending'[r] = {}
                /\ IF k[r] < Len(mods[r])
                   THEN pc'[r] = "FetchLessons" /\ k'[r] = k[r] + 1
                   ELSE pc'[r] = "Complete"]_vars

\* C4 witness: module 1 was skipped, module 2 was emitted and stored
SkippedThenEmitted ==
    \E r \in Req :
        /\ pc[r] = "Complete"
        /\ skipped[r] = {1}
        /\ Len(chunks[r]) = 1
        /\ chunks[r][1].module_title = mods[r][2]
        /\ cache[TopicKey(topic[r])] = chunks[r]

(* C5: in the chunk a run has just emitted, lesson i carries the title of
   lesson i and the videos made from the result of the search issued for
   lesson i, in whatever order the searches of the module completed. *)
FanOutKeepsLessonOrder ==
    \A r \in Req :
        pc[r] = "Emitted" =>
            /\ Len(LastChunk(r).lessons) = Len(lessons[r])
            /\ Len(done[r]) = Len(lessons[r])
            /\ \A j \in 1..Len(done[r]) :
                   LET i == done[r][j].index
                   IN  /\ LastChunk(r).lessons[i].lesson_title = lessons[r][i]
                       /\ LastChunk(r).lessons[i].videos = Videos(done[r][j].result)

\* C5 witness: lesson 2's search completed first, with another result
CompletedOutOfOrder ==
    \E r \in Req :
        /\ pc[r] = "Emitted"
        /\ Len(done[r]) = 2
        /\ done[r][1].index = 2
        /\ done[r][1].result # done[r][2].result

(* C6: in the chunk a run has just emitted, every lesson whose search
   raised is present under its title with videos = [], every other lesson of
   the module has the videos of its own search, and the run then goes on to
   the next module (or, after the last one, to the cache write). *)
SearchFailureContained ==
    /\ [](\A r \in Req :
            pc[r] = "Emitted" =>
                \A j \in 1..Len(done[r]) :
                    LET i == done[r][j].index
                    IN  /\ i \in 1..Len(LastChunk(r).lessons)
                        /\ LastChunk(r).lessons[i].lesson_title = lessons[r][i]
                        /\ LastChunk(r).lessons[i].videos =
                               IF done[r][j].raised THEN <<>>
                               ELSE Videos(done[r][j].result))
    /\ [][\A r \in Req :
            pc[r] = "Emitted" /\ pc'[r] \notin { "Emitted", "Cancelled" } =>
                /\ out'[r] = out[r]
                /\ IF k[r] < Len(mods[r])
                   THEN pc'[r] = "FetchLessons" /\ k'[r] = k[r] + 1
                   ELSE pc'[r] = "Complete"]_vars

\* C6 witness: one search raised, a sibling has its videos, a module follows
FailedSearchBesideGoodOne ==
    \E r \in Req :
        /\ pc[r] = "Emitted"
        /\ k[r] < Len(mods[r])
        /\ \E j1, j2 \in 1..Len(done[r]) :
               /\ done[r][j1].raised
               /\ LastChunk(r).lessons[done[r][j1].index].videos = <<>>
               /\ ~done[r][j2].raised
               /\ LastChunk(r).lessons[done[r][j2].index].videos # <<>>

(* C7: assembling a module whose searches have all returned never fails:
   no run ends by an exception.  Violated: a record with a url and no title
   makes the VideoInfo constructor raise. *)
AssemblyNeverRaises == \A r \in Req : pc[r] # "Crashed"

\* the urls of the records of a raw result that have one, in order
RECURSIVE ResolvableUrls(_)
ResolvableUrls(raw) ==
    IF raw = <<>> THEN <<>>
    ELSE IF "url" \in DOMAIN Head(raw) /\ Head(raw).url # ""
         THEN << Head(raw).url >> \o ResolvableUrls(Tail(raw))
         ELSE ResolvableUrls(Tail(raw))

\* every video of every chunk of the sequence has a non-empty url
AllUrlsNonEmpty(seq) ==
    \A c \in 1..Len(seq) :
        \A i \in 1..Len(seq[c].lessons) :
            \A j \in 1..Len(seq[c].lessons[i].videos) :
                seq[c].lessons[i].videos[j].url \notin { "", None }

(* C8: every VideoInfo of every emitted and of every cached chunk has a
   non-empty url, and the urls of a lesson's videos are exactly the urls of
   the records of its search result that have one, in their original
   order. *)
UrlFilter ==
    /\ \A r \in Req : AllUrlsNonEmpty(chunks[r])
    /\ \A r \in Req :
           out[r] # <<>> /\ pc[r] # "Aborted" /\ ~keyPresent[r] =>
               out[r] = [i \in 1..Len(chunks[r]) |-> JsonLine(chunks[r][i])]
    /\ \A key \in DOMAIN cache : AllUrlsNonEmpty(cache[key])
    /\ \A r \in Req :
           pc[r] = "Emitted" =>
               \A j \in 1..Len(done[r]) :
                   LET vs == LastChunk(r).lessons[done[r][j].index].videos
                   IN  [n \in 1..Len(vs) |-> vs[n].url]
                           = ResolvableUrls(done[r][j].result)

\* C8 witness: records without a url were dropped, the other two kept
DroppedRecordsWithoutUrl ==
    \E r \in Req :
        /\ pc[r] = "Complete"
        /\ cache[TopicKey(topic[r])] = chunks[r]
        /\ \E c \in 1..Len(chunks[r]) :
               \E i \in 1..Len(chunks[r][c].lessons) :
                   LET vs == chunks[r][c].lessons[i].videos
                   IN  Len(vs) = 2 /\ vs[1].url = "ua" /\ vs[2].url = "ub"

(* C9: a request whose topic has fewer than 5 characters is rejected: it
   never tests the cache, issues no Outline Generator call and no Video
   Resolver call, emits nothing and writes no cache entry. *)
ShortTopicRejected ==
    \A r \in Req :
        pc[r] # "Idle" /\ Len(topic[r]) < 5 =>
            /\ pc[r] = "Rejected"
            /\ genCalls[r] = 0 /\ vidCalls[r] = 0
            /\ lookups[r] = 0 /\ writes[r] = 0
            /\ out[r] = <<>>
            /\ \A key \in DOMAIN writer : writer[key] # r

\* C9 witness: a topic of four characters was rejected while the cache held
\* an entry
ShortTopicSeen ==
    \E r \in Req :
        pc[r] = "Rejected" /\ Len(topic[r]) = 4 /\ DOMAIN cache # {}

(* C10, as stated: once an entry exists for a key, no step updates,
   replaces or removes it.  Violated: the cache write of a second run for
   the same key replaces the entry. *)
CacheIsWriteOnce ==
    [][\A key \in DOMAIN cache :
           key \in DOMAIN cache' /\ cache'[key] = cache[key]]_vars

(* C10, amended: an entry is never removed, and no cache hit and no run for
   another key changes it; it is replaced only by the cache write of another
   run for the same key, a run that tested the cache before the entry
   existed, so that the entry kept is that of the run that finishes last. *)
CacheEntryChangesOnlyByLaterFinalize ==
    [][\A key \in DOMAIN cache :
           /\ key \in DOMAIN cache'
           /\ cache'[key] # cache[key] =>
                  \E r \in Req :
                      /\ pc[r] # "Complete" /\ pc'[r] = "Complete"
                      /\ Normalized(topic[r]) = key
                      /\ ~keyPresent[r]
                      /\ cache'[key] = chunks[r]
                      /\ \A q \in Req \ {r} : pc'[q] = pc[q]]_vars

\* C10 witness: two runs for one key completed; the later one's entry stays
EntryReplaced ==
    \E r \in Req, w \in Req :
        /\ r # w
        /\ pc[r] = "Complete" /\ pc[w] = "Complete"
        /\ Normalized(topic[r]) = Normalized(topic[w])
        /\ chunks[r] # chunks[w]
        /\ writer[Normalized(topic[w])] = w
        /\ cache[Normalized(topic[w])] = chunks[w]
        /\ \E key \in DOMAIN cache : key # Normalized(topic[w])

\* the NDJSON lines of a sequence of chunks
Lines(seq) == [i \in 1..Len(seq) |-> JsonLine(seq[i])]

\* the generator of a live run is suspended inside its pipeline
InFlight == { "FetchModules", "FetchLessons", "FanOut", "Emitted" }

(* C11: every cache entry was stored by a run that has completed: the run
   had gone through every module of its module list and had delivered every
   chunk of the entry to its consumer before the step that stored it; a run
   in flight has stored nothing, so the chunks it has emitted so far are in
   no entry; the cache changes in no other step than the one that ends the
   loop of a run. *)
CommitOnlyAtFinalize ==
    /\ [](\A key \in DOMAIN cache :
            LET w == writer[key]
            IN  /\ w \in Req
                /\ pc[w] = "Complete"
                /\ TopicKey(topic[w]) = key
                /\ k[w] = Len(mods[w]) + 1
                /\ cache[key] = chunks[w]
                /\ out[w] = Lines(cache[key]))
    /\ [](\A r \in Req : pc[r] \in InFlight => writes[r] = 0)
    /\ [][/\ cache' # cache => \E w \in Req : writes'[w] # writes[w]
           /\ \A r \in Req :
                  writes'[r] # writes[r] =>
                      /\ pc[r] \in InFlight /\ pc'[r] = "Complete"
                      /\ k'[r] = Len(mods'[r]) + 1
                      /\ out[r] = Lines(chunks[r])
                      /\ cache'[TopicKey(topic[r])] = chunks[r]]_vars

\* C11 witness: a run has stored its two chunks; a later request for the key
\* arrived while that run was in flight, missed, and has emitted one chunk
PartialRunBesideEntry ==
    \E w \in Req, q \in Req :
        /\ w < q
        /\ pc[w] = "Complete" /\ Len(cache[TopicKey(topic[w])]) = 2
        /\ writer[TopicKey(topic[w])] = w
        /\ TopicKey(topic[q]) = TopicKey(topic[w])
        /\ w \notin finished[q] /\ ~keyPresent[q]
        /\ pc[q] = "Emitted" /\ Len(chunks[q]) = 1

\* the number of lessons in a sequence of chunks
RECURSIVE LessonCount(_)
LessonCount(seq) ==
    IF seq = <<>> THEN 0
    ELSE Len(Head(seq).lessons) + LessonCount(Tail(seq))

(* C12: a request finds its key in the cache only if a run for the key had
   completed before it arrived, so a request that arrives while the runs for
   its key are all still in flight misses; every request that missed runs
   the pipeline by itself: when it completes it has issued one module-title
   call, one lesson call per module and one search per lesson of its own,
   and has written the cache once; and the write of a completing run
   replaces whatever entry the key had, so the entry left is that of the run
   that completed last. *)
NoDeduplication ==
    /\ [](\A q \in Req :
            keyPresent[q] =>
                \E w \in finished[q] : pc[w] = "Complete" /\ ~keyPresent[w])
    /\ [](\A r \in Req :
            pc[r] = "Complete" =>
                /\ ~keyPresent[r]
                /\ genCalls[r] = 1 + Len(mods[r])
                /\ vidCalls[r] = LessonCount(chunks[r])
                /\ writes[r] = 1)
    /\ [][\A r \in Req :
            pc[r] # "Complete" /\ pc'[r] = "Complete" =>
                cache'[TopicKey(topic[r])] = chunks[r]]_vars

\* C12 witness: two runs for one key overlapped, both missed and both
\* completed with different chunks; the one that arrived first completed
\* last and its entry is the one in the cache
BothComputedLastWins ==
    \E r \in Req, q \in Req :
        /\ r < q
        /\ TopicKey(topic[r]) = TopicKey(topic[q])
        /\ topic[r] # topic[q]
        /\ pc[r] = "Complete" /\ pc[q] = "Complete"
        /\ r \notin finished[q]
        /\ ~keyPresent[r] /\ ~keyPresent[q]
        /\ genCalls[r] = 3 /\ genCalls[q] = 3
        /\ vidCalls[r] > 0 /\ vidCalls[q] > 0
        /\ writes[r] = 1 /\ writes[q] = 1
        /\ chunks[r] # chunks[q]
        /\ writer[TopicKey(topic[r])] = r
        /\ cache[TopicKey(topic[r])] = chunks[r]

(* C13: the searches of a request that are outstanding are searches of the
   module the loop is at, at most one per lesson of that module, and none is
   outstanding while the generator fetches lessons, sleeps after a chunk or
   has ended; a lesson call for a module other than the first is issued only
   when the module before it was emitted or skipped, and the searches of a
   module are started only when no search is outstanding. *)
ModulesStrictlySequential ==
    /\ [](\A r \in Req :
            /\ pending[r] \subseteq 1..Len(lessons[r])
            /\ Cardinality(pending[r]) <= Len(lessons[r])
            /\ pc[r] \in { "FetchLessons", "Emitted" } \cup RunEnded =>
                   pending[r] = {})
    /\ [][\A r \in Req :
            /\ pc[r] # "Idle" /\ genCalls'[r] # genCalls[r] =>
                   /\ genCalls'[r] = genCalls[r] + 1
                   /\ pc'[r] = "FetchLessons"
                   /\ k'[r] = k[r] + 1
                   /\ pending[r] = {}
                   /\ \/ pc[r] = "FetchModules"
                      \/ /\ pc[r] = "Emitted"
                         /\ chunks[r] # <<>>
                         /\ LastChunk(r).module_title = mods[r][k[r]]
                         /\ out[r] = Lines(chunks[r])
                      \/ /\ pc[r] = "FetchLessons"
                         /\ k[r] \in skipped'[r]
            /\ vidCalls'[r] # vidCalls[r] =>
                   /\ pending[r] = {}
                   /\ pc[r] = "FetchLessons" /\ pc'[r] = "FanOut"
                   /\ k'[r] = k[r]
                   /\ pending'[r] = 1..Len(lessons'[r])
                   /\ vidCalls'[r] = vidCalls[r] + Len(lessons'[r])]_vars

\* C13 witness: module 1 was emitted and the two searches of module 2 are
\* outstanding
SecondModuleFannedOut ==
    \E r \in Req :
        /\ pc[r] = "FanOut" /\ k[r] = 2
        /\ Len(chunks[r]) = 1 /\ chunks[r][1].module_title = mods[r][1]
        /\ Cardinality(pending[r]) = 2

\* s is a subsequence of t
RECURSIVE IsSubseq(_, _)
IsSubseq(s, t) ==
    IF s = <<>> THEN TRUE
    ELSE IF t = <<>> THEN FALSE
    ELSE IF Head(s) = Head(t) THEN IsSubseq(Tail(s), Tail(t))
    ELSE IsSubseq(s, Tail(t))

\* the module titles of a sequence of chunks
ModuleTitles(seq) == [i \in 1..Len(seq) |-> seq[i].module_title]

\* the lesson titles of a chunk
LessonTitles(chunk) == [i \in 1..Len(chunk.lessons) |-> chunk.lessons[i].lesson_title]

(* C14: the module titles of the chunks a run has emitted are a subsequence
   of its module list, ending with the module the loop is at when a chunk
   has just been emitted; a chunk is emitted only in a step taken when every
   search of the module has returned; and the lesson titles of the chunk are
   the lesson list of the module, title for title, a repeated title and a
   lesson without videos included. *)
StreamShape ==
    /\ [](\A r \in Req :
            pc[r] \in InFlight \cup { "Complete", "Crashed", "Cancelled" } =>
                /\ IsSubseq(ModuleTitles(chunks[r]), mods[r])
                /\ out[r] = Lines(chunks[r])
                /\ pc[r] = "Emitted" =>
                       /\ LastChunk(r).module_title = mods[r][k[r]]
                       /\ LessonTitles(LastChunk(r)) = lessons[r]
                       /\ pending[r] = {}
                       /\ { done[r][j].index : j \in 1..Len(done[r]) }
                              = 1..Len(lessons[r]))
    /\ [][\A r \in Req :
            chunks'[r] # chunks[r] =>
                /\ pc[r] = "FanOut"
                /\ pending[r] = {}
                /\ Len(done[r]) = Len(lessons[r])
                /\ Len(chunks'[r]) = Len(chunks[r]) + 1
                /\ Len(chunks'[r][Len(chunks'[r])].lessons) = Len(lessons[r])
                /\ out'[r] = Append(out[r], JsonLine(chunks'[r][Len(chunks'[r])]))]_vars

\* C14 witness: the second chunk of a run has two lessons of the same
\* title, one of them without videos
RepeatedTitleKept ==
    \E r \in Req :
        /\ pc[r] = "Emitted" /\ Len(chunks[r]) = 2
        /\ ModuleTitles(chunks[r]) = mods[r]
        /\ LessonTitles(LastChunk(r)) = << "La", "La" >>
        /\ LastChunk(r).lessons[1].videos = <<>>
        /\ LastChunk(r).lessons[2].videos # <<>>

(* C15: as long as the lesson call has failed for every module a run has
   gone through, the run has emitted nothing, neither a chunk nor an error
   record; when the lesson call of the last module fails as well, or when
   the module list is empty, the generator ends normally, and the run is
   then Complete with an empty stream and the empty list stored under its
   key. *)
EmptyStreamOnZeroSurvivors ==
    /\ [](\A r \in Req :
            /\ pc[r] \in { "FetchLessons", "FanOut", "Complete" }
            /\ skipped[r] = 1..(k[r] - 1)
            => /\ out[r] = <<>>
               /\ chunks[r] = <<>>
               /\ pc[r] = "Complete" =>
                      /\ k[r] = Len(mods[r]) + 1
                      /\ writes[r] = 1
                      /\ cache[TopicKey(topic[r])] = <<>>)
    /\ [][\A r \in Req :
            /\ LessonCallFails(r) /\ k[r] = Len(mods[r]) =>
                   pc'[r] = "Complete" /\ out'[r] = out[r]
            /\ pc[r] = "FetchModules" /\ genCalls'[r] = genCalls[r]
               /\ pc'[r] \notin { "FetchModules", "Aborted", "Cancelled" } =>
                   /\ mods'[r] = <<>>
                   /\ pc'[r] = "Complete" /\ out'[r] = <<>>]_vars

\* C15 witness: the lesson call failed for both modules of the list
AllModulesSkipped ==
    \E r \in Req :
        /\ pc[r] = "Complete"
        /\ Len(mods[r]) = 2 /\ skipped[r] = {1, 2}
        /\ genCalls[r] = 3 /\ vidCalls[r] = 0
        /\ out[r] = <<>>
        /\ cache[TopicKey(topic[r])] = <<>>

(* C17: every request that missed eventually has its run Complete, with
   its chunks stored under its key, or Aborted, with the error record
   emitted; and every request that hit eventually has replayed every chunk
   of the list it iterates and has ended.  Violated: a record with a url and
   no title ends the run by an exception, in neither state. *)
EveryRequestTerminates ==
    \A r \in Req :
        /\ [](pc[r] \in InFlight =>
                <>(\/ pc[r] = "Complete" /\ writes[r] = 1
                   \/ pc[r] = "Aborted" /\ out[r] = << JsonLine(ErrorRecord) >>))
        /\ [](pc[r] \in { "ReplayWait", "Replay" } =>
                <>(pc[r] = "ReplayDone" /\ out[r] = Lines(snap[r])))

\* s is a prefix of t
IsPrefix(s, t) == Len(s) <= Len(t) /\ s = SubSeq(t, 1, Len(s))

(* C18, as stated: once a run with no surviving module has completed, every
   later request for its key is a hit, issues no call and receives an empty
   stream.  Violated: a run for the same key that was in flight when the
   empty entry was stored replaces it with its own chunks. *)
EmptyEntryIsSticky ==
    \A r \in Req, a \in Req :
        ArrivedAfter(r, a, "Complete") /\ chunks[a] = <<>> =>
            /\ keyPresent[r]
            /\ genCalls[r] = 0 /\ vidCalls[r] = 0
            /\ out[r] = <<>>

(* C18, amended: a run that completes with no surviving module stores the
   empty list under its key; every request for the key that arrives
   afterwards is a hit and issues no Outline Generator call and no Video
   Resolver call, and it receives an empty stream unless another run for the
   key, one that had arrived before the empty entry was stored, has
   completed since and replaced the entry: the request then receives that
   run's chunks. *)
EmptyEntryServedUntilReplaced ==
    /\ \A a \in Req :
           pc[a] = "Complete" /\ chunks[a] = <<>> =>
               /\ writes[a] = 1
               /\ TopicKey(topic[a]) \in DOMAIN cache
               /\ writer[TopicKey(topic[a])] = a => cache[TopicKey(topic[a])] = <<>>
    /\ \A r \in Req, a \in Req :
           ArrivedAfter(r, a, "Complete") /\ chunks[a] = <<>> =>
               /\ keyPresent[r]
               /\ pc[r] \in { "ReplayWait", "Replay", "ReplayDone" }
               /\ genCalls[r] = 0 /\ vidCalls[r] = 0 /\ writes[r] = 0
               /\ out[r] # <<>> =>
                      /\ src[r] \in Req \ {a}
                      /\ pc[src[r]] = "Complete"
                      /\ a \notin finished[src[r]]
                      /\ TopicKey(topic[src[r]]) = TopicKey(topic[r])
                      /\ IsPrefix(out[r], out[src[r]])

\* C18 witness: both lesson calls of a run failed, and a request that
\* spells the topic differently was then served the empty stream
EmptyEntryReplayed ==
    \E r \in Req, a \in Req :
        /\ ArrivedAfter(r, a, "Complete")
        /\ topic[r] # topic[a]
        /\ Len(mods[a]) = 2 /\ skipped[a] = {1, 2} /\ chunks[a] = <<>>
        /\ pc[r] = "ReplayDone" /\ src[r] = a
        /\ snap[r] = <<>> /\ out[r] = <<>>
        /\ genCalls[r] = 0

(* C19: what a replay has emitted is at every moment the beginning, and at
   its end the whole, of the lines of the chunks of one completed run for
   its key, the run whose entry was in the cache when the replay started,
   whatever other runs for the key have stored in the meantime; and it has
   issued no call and written nothing. *)
ReplayIsOneEntry ==
    \A r \in Req :
        pc[r] \in { "Replay", "ReplayDone" } =>
            /\ src[r] \in Req
            /\ pc[src[r]] = "Complete"
            /\ TopicKey(topic[src[r]]) = TopicKey(topic[r])
            /\ IsPrefix(out[r], Lines(chunks[src[r]]))
            /\ pc[r] = "Replay" => out[r] # <<>>
            /\ pc[r] = "ReplayDone" => out[r] = Lines(chunks[src[r]])
            /\ genCalls[r] = 0 /\ vidCalls[r] = 0 /\ writes[r] = 0

\* C19 witness: a replay has emitted the two chunks of the entry it started
\* with and has not ended yet, and the cache now holds another run's entry
EntryReplacedDuringReplay ==
    \E r \in Req :
        /\ pc[r] = "Replay"
        /\ Len(out[r]) = 2
        /\ out[r] = Lines(chunks[src[r]])
        /\ writer[TopicKey(topic[r])] # src[r]
        /\ cache[TopicKey(topic[r])] # chunks[src[r]]
        /\ cache[TopicKey(topic[r])] # <<>>

\* x is a dumped Module: it has the two fields of a Module and no other
IsModuleChunk(x) == DOMAIN x = { "module_title", "lessons" }

(* C20: every key of the cache is in normal form (lower-cased, trimmed) and
   is the normalized topic of an accepted request whose run has completed,
   and the entry is the sequence of the chunks that this one run emitted,
   each of them a Module: no error record is in the cache, and a run that
   emitted one has stored nothing; the cache write of a run leaves the entry
   of every other key as it was. *)
CacheContent ==
    /\ [](\A key \in DOMAIN cache :
            /\ key = Normalized(key)
            /\ \A i \in 1..Len(cache[key]) : IsModuleChunk(cache[key][i])
            /\ \E w \in Req :
                   /\ pc[w] = "Complete"
                   /\ ValidTopic(topic[w])
                   /\ key = Normalized(topic[w])
                   /\ cache[key] = chunks[w]
                   /\ out[w] = Lines(cache[key]))
    /\ [](\A r \in Req :
            (\E i \in 1..Len(out[r]) : ~IsModuleChunk(out[r][i][1])) =>
                pc[r] = "Aborted" /\ writes[r] = 0)
    /\ [][\A r \in Req :
            writes'[r] # writes[r] =>
                \A key \in DOMAIN cache :
                    key # Normalized(topic[r]) =>
                        key \in DOMAIN cache' /\ cache'[key] = cache[key]]_vars

\* C20 witness: the cache holds entries for two keys, one of them sent in
\* another spelling than its key, and a third run has emitted an error record
TwoKeysAndAnAbort ==
    \E r \in Req, q \in Req, a \in Req :
        /\ pc[r] = "Complete" /\ pc[q] = "Complete" /\ pc[a] = "Aborted"
        /\ Normalized(topic[r]) # Normalized(topic[q])
        /\ topic[r] # Normalized(topic[r])
        /\ cache[Normalized(topic[r])] = chunks[r] /\ chunks[r] # <<>>
        /\ cache[Normalized(topic[q])] = chunks[q]
        /\ out[a] = << JsonLine(ErrorRecord) >>

====
